---- MODULE Spec2Model ----
(***************************************************************************)
(* Model of xeez-pyutils: the domain exceptions and their FastAPI handlers *)
(* (pyutils/exceptions.py), the response envelope (responses.py) and the   *)
(* SQLAlchemy repository (xeez_pyutils/sqlalchemy_repository.py).          *)
(*                                                                         *)
(* One repository call is run statement by statement: the try body of the  *)
(* method, then (on an exception) the first matching except clause, then   *)
(* the translation of the raised exception by the registered handler.      *)
(* The session and the database persist from one call to the next.         *)
(***************************************************************************)
EXTENDS Integers, Sequences, FiniteSets, TLC

VARIABLES pc, op, ip, arg, db_obj, session, db, calls, cause, raised,
          result, response, session0, db0

vars == <<pc, op, ip, arg, db_obj, session, db, calls, cause, raised,
          result, response, session0, db0>>

(***************************************************************************)
(* Bounds of the model.                                                    *)
(***************************************************************************)
MaxId == 2      \* rows have identifiers 1..MaxId
MaxVal == 1     \* attribute values supplied by callers are 1..MaxVal
MaxArgs == 2    \* an exception carries at most MaxArgs constructor arguments

Ids == 1..MaxId
ArgStrings == {"", "42"}

(***************************************************************************)
(* Python values that end up in exception arguments: str and tuple.        *)
(***************************************************************************)
Str(s) == [t |-> "str", s |-> s, items |-> <<>>]
Tuple(items) == [t |-> "tuple", s |-> "", items |-> items]

RECURSIVE PyRepr(_)
RECURSIVE JoinRepr(_, _)
\* repr(x) of the elements i..Len(items), separated by ", "
JoinRepr(items, i) ==
    IF i > Len(items) THEN ""
    ELSE IF i = Len(items) THEN PyRepr(items[i])
    ELSE PyRepr(items[i]) \o ", " \o JoinRepr(items, i + 1)

\* repr(): a str is quoted, a tuple is parenthesised, a 1-tuple ends in ",)"
PyRepr(v) ==
    IF v.t = "str" THEN "'" \o v.s \o "'"
    ELSE IF Len(v.items) = 0 THEN "()"
    ELSE IF Len(v.items) = 1 THEN "(" \o PyRepr(v.items[1]) \o ",)"
    ELSE "(" \o JoinRepr(v.items, 1) \o ")"

\* str(): a str is itself, a tuple is its repr
PyStr(v) == IF v.t = "str" THEN v.s ELSE PyRepr(v)

\* BaseException.__str__: "" without arguments, str(arg) with one argument,
\* str(args) otherwise.  None of the six domain exceptions overrides it.
ExcStr(exc) ==
    IF Len(exc.args) = 0 THEN ""
    ELSE IF Len(exc.args) = 1 THEN PyStr(exc.args[1])
    ELSE PyRepr(Tuple(exc.args))

\* the argument tuples an exception of the environment may carry
ArgTuples == UNION {[1..n -> {Str(s) : s \in ArgStrings}] : n \in 0..MaxArgs}

NoExc == [kind |-> "None", args |-> <<>>]

(***************************************************************************)
(* Exception classes.                                                      *)
(***************************************************************************)
ErrorKinds == {"BadValueError", "NotFoundError", "DuplicatedError",
               "InternalServerError", "DatabaseError", "DatabaseIntegrityError"}

\* errors of the storage engine: IntegrityError and OperationalError are
\* subclasses of SQLAlchemyError
StorageErrors == {"IntegrityError", "OperationalError", "SQLAlchemyError"}

IsInstance(kind, cls) ==
    \/ kind = cls
    \/ cls = "SQLAlchemyError" /\ kind \in StorageErrors

(***************************************************************************)
(* Response envelope (responses.py).  An Optional field is a sequence of   *)
(* length 0 (None) or 1.                                                   *)
(***************************************************************************)
ErrorModel(message, type) == [message |-> message, type |-> type]

ResponseModel(success, error, data) ==
    [success |-> success, error |-> error, data |-> data]

JSONResponse(status_code, content) ==
    [status_code |-> status_code, content |-> content]

\* the colon is appended even when str(exc) is empty
Message_always_colon(text, exc) == text \o ":" \o ExcStr(exc)

\* text + ":" + str(exc) if str(exc) else text
Message(text, exc) ==
    IF ExcStr(exc) # "" THEN text \o ":" \o ExcStr(exc) ELSE text

(***************************************************************************)
(* The six handlers (exceptions.py).                                       *)
(***************************************************************************)
bad_value_error_exception_handler(request, exc) ==
    JSONResponse(400, ResponseModel(FALSE,
        <<ErrorModel(Message("Bad Value error", exc), "BadValueErr")>>, <<>>))

database_integrity_error_exception_handler(request, exc) ==
    JSONResponse(400, ResponseModel(FALSE,
        <<ErrorModel(Message("Database Integrity error", exc),
                     "DatabaseIntegrityErr")>>, <<>>))

database_error_exception_handler(request, exc) ==
    JSONResponse(400, ResponseModel(FALSE,
        <<ErrorModel(Message("Database error", exc), "DatabaseErr")>>, <<>>))

\* the status code copied from the neighbouring handlers
not_found_exception_handler_400(request, exc) ==
    JSONResponse(400, ResponseModel(FALSE,
        <<ErrorModel(Message("Not found", exc), "NotFound")>>, <<>>))

not_found_exception_handler(request, exc) ==
    JSONResponse(404, ResponseModel(FALSE,
        <<ErrorModel(Message("Not found", exc), "NotFound")>>, <<>>))

\* the envelope marked successful although it carries the error
duplicated_exception_handler_success(request, exc) ==
    JSONResponse(400, ResponseModel(TRUE,
        <<ErrorModel(Message("Duplicated entry", exc), "DuplicatedEntry")>>,
        <<>>))

duplicated_exception_handler(request, exc) ==
    JSONResponse(400, ResponseModel(FALSE,
        <<ErrorModel(Message("Duplicated entry", exc), "DuplicatedEntry")>>,
        <<>>))

internal_server_error_exception_handler(request, exc) ==
    JSONResponse(500, ResponseModel(FALSE,
        <<ErrorModel(Message("Unknown error", exc), "UnknownErr")>>, <<>>))

\* the list in the row order of the error-kind table
exception_to_handler_list_table_order ==
    << <<"BadValueError", "bad_value_error_exception_handler">>,
       <<"NotFoundError", "not_found_exception_handler">>,
       <<"DuplicatedError", "duplicated_exception_handler">>,
       <<"InternalServerError", "internal_server_error_exception_handler">>,
       <<"DatabaseIntegrityError",
         "database_integrity_error_exception_handler">>,
       <<"DatabaseError", "database_error_exception_handler">> >>

exception_to_handler_list ==
    << <<"BadValueError", "bad_value_error_exception_handler">>,
       <<"NotFoundError", "not_found_exception_handler">>,
       <<"DuplicatedError", "duplicated_exception_handler">>,
       <<"InternalServerError", "internal_server_error_exception_handler">>,
       <<"DatabaseError", "database_error_exception_handler">>,
       <<"DatabaseIntegrityError",
         "database_integrity_error_exception_handler">> >>

\* calling the handler an entry of the list refers to
CallHandler(name, request, exc) ==
    CASE name = "bad_value_error_exception_handler" ->
             bad_value_error_exception_handler(request, exc)
      [] name = "not_found_exception_handler" ->
             not_found_exception_handler(request, exc)
      [] name = "duplicated_exception_handler" ->
             duplicated_exception_handler(request, exc)
      [] name = "internal_server_error_exception_handler" ->
             internal_server_error_exception_handler(request, exc)
      [] name = "database_error_exception_handler" ->
             database_error_exception_handler(request, exc)
      [] name = "database_integrity_error_exception_handler" ->
             database_integrity_error_exception_handler(request, exc)

\* the entries of the list registered for the class of exc
HandlerEntries(exc) ==
    {i \in 1..Len(exception_to_handler_list) :
        exception_to_handler_list[i][1] = exc.kind}

(***************************************************************************)
(* The repository methods (sqlalchemy_repository.py).  A method is its try *)
(* body, a sequence of statements, and its except clauses in source order; *)
(* a clause is the class it catches, the statements of its body and the    *)
(* domain exception it raises (with the fixed leading arguments, if any).  *)
(***************************************************************************)
Clause(catch, body, raises, msg) ==
    [catch |-> catch, body |-> body, raises |-> raises, msg |-> msg]

\* the validation clause rolling back like its two neighbours
except_ValidationError_rollback ==
    Clause("ValidationError", <<"rollback", "raise">>, "InternalServerError",
           <<Str("Erro inesperado ao fazer o parsing para o modelo")>>)

except_ValidationError ==
    Clause("ValidationError", <<"raise">>, "InternalServerError",
           <<Str("Erro inesperado ao fazer o parsing para o modelo")>>)

except_IntegrityError ==
    Clause("IntegrityError", <<"rollback", "raise">>,
           "DatabaseIntegrityError", <<>>)

\* the generic clause without its rollback
except_SQLAlchemyError_no_rollback ==
    Clause("SQLAlchemyError", <<"raise">>, "DatabaseError", <<>>)

except_SQLAlchemyError ==
    Clause("SQLAlchemyError", <<"rollback", "raise">>, "DatabaseError", <<>>)

get ==
    [try |-> <<"query">>,
     except |-> <<except_IntegrityError, except_SQLAlchemyError>>]

get_multi ==
    [try |-> <<"query">>,
     except |-> <<except_IntegrityError, except_SQLAlchemyError>>]

\* the generic clause placed before the one for IntegrityError
create_generic_first ==
    [try |-> <<"construct", "add", "commit", "refresh">>,
     except |-> <<except_ValidationError, except_SQLAlchemyError,
                  except_IntegrityError>>]

\* the refresh issued before the commit
create_refresh_first ==
    [try |-> <<"construct", "add", "refresh", "commit">>,
     except |-> <<except_ValidationError, except_IntegrityError,
                  except_SQLAlchemyError>>]

create ==
    [try |-> <<"construct", "add", "commit", "refresh">>,
     except |-> <<except_ValidationError, except_IntegrityError,
                  except_SQLAlchemyError>>]

\* the commit issued a second time
update_commit_twice ==
    [try |-> <<"setattr", "add", "commit", "commit", "refresh">>,
     except |-> <<except_IntegrityError, except_SQLAlchemyError>>]

update ==
    [try |-> <<"setattr", "add", "commit", "refresh">>,
     except |-> <<except_IntegrityError, except_SQLAlchemyError>>]

\* the commit left out
delete_no_commit ==
    [try |-> <<"delete">>,
     except |-> <<except_IntegrityError, except_SQLAlchemyError>>]

delete ==
    [try |-> <<"delete", "commit">>,
     except |-> <<except_IntegrityError, except_SQLAlchemyError>>]

Ops == {"get", "get_multi", "create", "update", "delete"}

Method(o) ==
    CASE o = "get" -> get
      [] o = "get_multi" -> get_multi
      [] o = "create" -> create
      [] o = "update" -> update
      [] o = "delete" -> delete

\* the statements that call the session
StorageActions == {"query", "add", "delete", "commit", "refresh"}

\* Python runs the first except clause whose class the exception is an
\* instance of
Matching(o, e) ==
    {i \in 1..Len(Method(o).except) :
        IsInstance(e.kind, Method(o).except[i].catch)}

MatchedClause(o, e) ==
    Method(o).except[CHOOSE i \in Matching(o, e) :
                        \A j \in Matching(o, e) : i <= j]

\* DatabaseError(e.args), DatabaseIntegrityError(e.args) and
\* InternalServerError("Erro ...", e.args): the tuple e.args is passed as
\* ONE argument
DomainError(clause, e) ==
    [kind |-> clause.raises, args |-> clause.msg \o <<Tuple(e.args)>>]

(***************************************************************************)
(* Call arguments.  obj_in is the attribute mapping: <<>> is the empty     *)
(* mapping, <<v>> sets the attribute to v; a negative value does not       *)
(* validate against the model type.                                        *)
(***************************************************************************)
ObjIns == {<<>>} \cup {<<v>> : v \in 1..MaxVal} \cup {<<-1>>}

Validates(obj_in) == \A i \in 1..Len(obj_in) : obj_in[i] >= 0

Args(id, obj_in, skip, limit) ==
    [id |-> id, obj_in |-> obj_in, skip |-> skip, limit |-> limit]

NoObj == [id |-> 0, val |-> 0]

RowIds(rows) == {r.id : r \in rows}

Row(rows, id) == CHOOSE r \in rows : r.id = id

\* rows by ascending id
RECURSIVE Sorted(_)
Sorted(rows) ==
    IF rows = {} THEN <<>>
    ELSE LET r == CHOOSE x \in rows : \A y \in rows : x.id <= y.id
         IN <<r>> \o Sorted(rows \ {r})

Min(a, b) == IF a < b THEN a ELSE b

\* .offset(skip).limit(limit).all()
OffsetLimit(rows, skip, limit) ==
    SubSeq(Sorted(rows), skip + 1, Min(Cardinality(rows), skip + limit))

\* .filter_by(id=id).first()
First(rows, id) == IF id \in RowIds(rows) THEN <<Row(rows, id)>> ELSE <<>>

(***************************************************************************)
(* The session: whether a transaction is open and the pending changes.     *)
(***************************************************************************)
EmptySession == [in_transaction |-> FALSE, pending |-> {}]

Begin(s) == [s EXCEPT !.in_transaction = TRUE]

Pending(s, what, obj) ==
    [in_transaction |-> TRUE,
     pending |-> s.pending \cup {[what |-> what, obj |-> obj]}]

\* session.rollback() discards the pending changes and ends the transaction;
\* it is taken to complete without raising
Rollback(s) == EmptySession

FreeIds(rows) == Ids \ RowIds(rows)

NextId(rows) == CHOOSE i \in FreeIds(rows) : \A j \in FreeIds(rows) : i <= j

\* an inserted object gets its identifier at the flush of the commit
Flushed(rows, obj) ==
    IF obj.id = 0 THEN [obj EXCEPT !.id = NextId(rows)] ELSE obj

\* the flush succeeds only if every new row can get an identifier
CanFlush(s, rows) ==
    \A p \in s.pending : p.what = "new" => FreeIds(rows) # {}

Committed(s, rows) ==
    LET gone == {p.obj.id : p \in {q \in s.pending : q.what # "new"}}
        kept == {r \in rows : r.id \notin gone}
        put  == {Flushed(rows, p.obj) :
                    p \in {q \in s.pending : q.what # "deleted"}}
    IN kept \cup put

(***************************************************************************)
(* State machine.                                                          *)
(***************************************************************************)
Init ==
    /\ pc = "idle"
    /\ op = "none"
    /\ ip = 0
    /\ arg = Args(0, <<>>, 0, 0)
    /\ db_obj = NoObj
    /\ session = EmptySession
    /\ db = {}
    /\ calls = <<>>
    /\ cause = NoExc
    /\ raised = NoExc
    /\ result = <<>>
    /\ response = <<>>
    /\ session0 = EmptySession
    /\ db0 = {}

Ready == pc \in {"idle", "returned", "responded"}

\* entering a method
Enter(o, a, obj) ==
    /\ Ready
    /\ pc' = "try"
    /\ op' = o
    /\ ip' = 1
    /\ arg' = a
    /\ db_obj' = obj
    /\ calls' = <<>>
    /\ cause' = NoExc
    /\ raised' = NoExc
    /\ result' = <<>>
    /\ response' = <<>>
    /\ session0' = session
    /\ db0' = db
    /\ UNCHANGED <<session, db>>

CallGet ==
    \E id \in Ids : Enter("get", Args(id, <<>>, 0, 0), NoObj)

CallGetMulti ==
    \E skip \in {0, 1}, limit \in {1, 10} :
        Enter("get_multi", Args(0, <<>>, skip, limit), NoObj)

CallCreate ==
    \E obj_in \in ObjIns : Enter("create", Args(0, obj_in, 0, 0), NoObj)

CallUpdate ==
    \E r \in db, obj_in \in {o \in ObjIns : Validates(o)} :
        Enter("update", Args(r.id, obj_in, 0, 0), r)

CallDelete ==
    \E r \in db : Enter("delete", Args(r.id, <<>>, 0, 0), r)

Stmt == Method(op).try[ip]

InTry == pc = "try" /\ ip <= Len(Method(op).try)

Logged(stmt) == IF stmt \in StorageActions \cup {"rollback", "raise", "return"}
                THEN Append(calls, stmt) ELSE calls

\* a statement of the try body completes
StepOk ==
    /\ InTry
    /\ ip' = ip + 1
    /\ calls' = Logged(Stmt)
    /\ CASE Stmt = "construct" ->
              /\ Validates(arg.obj_in)
              /\ db_obj' = [id |-> 0,
                            val |-> IF arg.obj_in = <<>> THEN 0
                                    ELSE arg.obj_in[1]]
              /\ UNCHANGED <<session, db, result>>
         [] Stmt = "setattr" ->
              /\ db_obj' = IF arg.obj_in = <<>> THEN db_obj
                           ELSE [db_obj EXCEPT !.val = arg.obj_in[1]]
              /\ UNCHANGED <<session, db, result>>
         [] Stmt = "add" ->
              /\ session' = Pending(session,
                                    IF db_obj.id = 0 THEN "new" ELSE "dirty",
                                    db_obj)
              /\ UNCHANGED <<db_obj, db, result>>
         [] Stmt = "delete" ->
              /\ session' = Pending(session, "deleted", db_obj)
              /\ UNCHANGED <<db_obj, db, result>>
         [] Stmt = "commit" ->
              /\ CanFlush(session, db)
              /\ db' = Committed(session, db)
              /\ db_obj' = IF op = "delete" THEN db_obj
                           ELSE Flushed(db, db_obj)
              /\ session' = EmptySession
              /\ UNCHANGED result
         [] Stmt = "refresh" ->
              /\ session' = Begin(session)
              /\ db_obj' = IF db_obj.id \in RowIds(db)
                           THEN Row(db, db_obj.id) ELSE db_obj
              /\ UNCHANGED <<db, result>>
         [] Stmt = "query" ->
              /\ session' = Begin(session)
              /\ result' = IF op = "get" THEN First(db, arg.id)
                           ELSE OffsetLimit(db, arg.skip, arg.limit)
              /\ UNCHANGED <<db_obj, db>>
    /\ UNCHANGED <<pc, op, arg, cause, raised, response, session0, db0>>

\* the model type rejects obj_in: pydantic raises ValidationError
ConstructFails ==
    /\ InTry
    /\ Stmt = "construct"
    /\ ~Validates(arg.obj_in)
    /\ \E a \in ArgTuples : cause' = [kind |-> "ValidationError", args |-> a]
    /\ pc' = "except"
    /\ ip' = 1
    /\ UNCHANGED <<op, arg, db_obj, session, db, calls, raised, result,
                   response, session0, db0>>

\* a call of the session raises an error of the storage engine
StorageFails ==
    /\ InTry
    /\ Stmt \in StorageActions
    /\ \E k \in StorageErrors, a \in ArgTuples :
          cause' = [kind |-> k, args |-> a]
    /\ calls' = Logged(Stmt)
    /\ session' = Begin(session)
    /\ pc' = "except"
    /\ ip' = 1
    /\ UNCHANGED <<op, arg, db_obj, db, raised, result, response, session0,
                   db0>>

\* the end of the try body: the method returns
Return ==
    /\ pc = "try"
    /\ ip > Len(Method(op).try)
    /\ pc' = "returned"
    /\ calls' = Logged("return")
    /\ UNCHANGED <<op, ip, arg, db_obj, session, db, cause, raised, result,
                   response, session0, db0>>

InExcept == pc = "except" /\ Matching(op, cause) # {}

ExceptStmt == MatchedClause(op, cause).body[ip]

\* self.session.rollback() in an except clause
ExceptRollback ==
    /\ InExcept
    /\ ExceptStmt = "rollback"
    /\ session' = Rollback(session)
    /\ calls' = Logged("rollback")
    /\ ip' = ip + 1
    /\ UNCHANGED <<pc, op, arg, db_obj, db, cause, raised, result, response,
                   session0, db0>>

\* the raise statement of an except clause
ExceptRaise ==
    /\ InExcept
    /\ ExceptStmt = "raise"
    /\ raised' = DomainError(MatchedClause(op, cause), cause)
    /\ calls' = Logged("raise")
    /\ pc' = "raised"
    /\ UNCHANGED <<op, ip, arg, db_obj, session, db, cause, result, response,
                   session0, db0>>

\* the layer above the repository raises one of the six kinds itself
ServiceRaise ==
    /\ Ready
    /\ \E k \in ErrorKinds, a \in ArgTuples :
          raised' = [kind |-> k, args |-> a]
    /\ pc' = "raised"
    /\ op' = "service"
    /\ ip' = 0
    /\ arg' = Args(0, <<>>, 0, 0)
    /\ db_obj' = NoObj
    /\ calls' = <<>>
    /\ cause' = NoExc
    /\ result' = <<>>
    /\ response' = <<>>
    /\ session0' = session
    /\ db0' = db
    /\ UNCHANGED <<session, db>>

\* the translation boundary: the handler registered for the class of the
\* raised exception builds the response
Translate ==
    /\ pc = "raised"
    /\ \E i \in HandlerEntries(raised) :
          response' = <<CallHandler(exception_to_handler_list[i][2],
                                    "request", raised)>>
    /\ pc' = "responded"
    /\ UNCHANGED <<op, ip, arg, db_obj, session, db, calls, cause, raised,
                   result, session0, db0>>

Next ==
    \/ CallGet
    \/ CallGetMulti
    \/ CallCreate
    \/ CallUpdate
    \/ CallDelete
    \/ StepOk
    \/ ConstructFails
    \/ StorageFails
    \/ Return
    \/ ExceptRollback
    \/ ExceptRaise
    \/ ServiceRaise
    \/ Translate

Spec == Init /\ [][Next]_vars

(***************************************************************************)
(* Properties.                                                             *)
(***************************************************************************)
Count(seq, x) == Cardinality({i \in DOMAIN seq : seq[i] = x})

Positions(seq, x) == {i \in DOMAIN seq : seq[i] = x}

\* a repository call has ended with an exception that came from the storage
StorageFailure ==
    /\ op \in Ops
    /\ pc \in {"raised", "responded"}
    /\ cause.kind \in StorageErrors

HandledResponse == pc = "responded" /\ response # <<>>

\* the error-kind table: status code and label of every kind
KindTable ==
    [k \in ErrorKinds |->
        CASE k = "BadValueError" -> [status |-> 400, type |-> "BadValueErr"]
          [] k = "NotFoundError" -> [status |-> 404, type |-> "NotFound"]
          [] k = "DuplicatedError" ->
                 [status |-> 400, type |-> "DuplicatedEntry"]
          [] k = "InternalServerError" ->
                 [status |-> 500, type |-> "UnknownErr"]
          [] k = "DatabaseIntegrityError" ->
                 [status |-> 400, type |-> "DatabaseIntegrityErr"]
          [] k = "DatabaseError" -> [status |-> 400, type |-> "DatabaseErr"]]

\* the fixed message prefix of every kind
KindPrefix ==
    [k \in ErrorKinds |->
        CASE k = "BadValueError" -> "Bad Value error"
          [] k = "NotFoundError" -> "Not found"
          [] k = "DuplicatedError" -> "Duplicated entry"
          [] k = "InternalServerError" -> "Unknown error"
          [] k = "DatabaseIntegrityError" -> "Database Integrity error"
          [] k = "DatabaseError" -> "Database error"]

\* C1: every one of the six kinds has exactly one entry in
\* exception_to_handler_list, and the response the registered handler builds
\* for a raised exception has the status code and error.type of the table.
C1_HandlerPerKind ==
    /\ \A k \in ErrorKinds :
          Cardinality(HandlerEntries([kind |-> k, args |-> <<>>])) = 1
    /\ HandledResponse =>
          /\ raised.kind \in ErrorKinds
          /\ response[1].status_code = KindTable[raised.kind].status
          /\ response[1].content.error[1].type = KindTable[raised.kind].type

C1_Witness ==
    /\ HandledResponse
    /\ raised.kind = "NotFoundError"
    /\ response[1].status_code = 404
    /\ response[1].content.error[1].type = "NotFound"

\* C2: error.message is the prefix of the kind alone when str(exc) is empty
\* and prefix + ":" + str(exc) otherwise; NotFoundError("42") gives
\* "Not found:42" and NotFoundError() gives "Not found".
C2_MessageFormat ==
    HandledResponse =>
        LET message == response[1].content.error[1].message
            prefix == KindPrefix[raised.kind]
        IN /\ ExcStr(raised) = "" => message = prefix
           /\ ExcStr(raised) # "" => message = prefix \o ":" \o ExcStr(raised)
           /\ raised = [kind |-> "NotFoundError", args |-> <<Str("42")>>]
                 => message = "Not found:42"
           /\ raised = [kind |-> "NotFoundError", args |-> <<>>]
                 => message = "Not found"

C2_Witness ==
    /\ HandledResponse
    /\ raised = [kind |-> "NotFoundError", args |-> <<>>]
    /\ response[1].content.error[1].message = "Not found"

\* C3: when a repository call ends with the domain exception of a storage
\* error, session.rollback() was called before the raise and not after it,
\* and the session has no open transaction.
C3_RollbackBeforeRaise ==
    StorageFailure =>
        /\ Positions(calls, "rollback") # {}
        /\ \A i \in Positions(calls, "rollback"),
              j \in Positions(calls, "raise") : i < j
        /\ ~session.in_transaction
        /\ session.pending = {}

C3_Witness ==
    /\ StorageFailure
    /\ op = "create"
    /\ cause.kind = "IntegrityError"
    /\ calls = <<"add", "commit", "rollback", "raise">>

\* C4: an IntegrityError of the storage is surfaced as DatabaseIntegrityError
\* and never as DatabaseError; every other SQLAlchemyError is surfaced as
\* DatabaseError.
C4_Classification ==
    StorageFailure =>
        raised.kind = IF cause.kind = "IntegrityError"
                      THEN "DatabaseIntegrityError" ELSE "DatabaseError"

C4_Witness ==
    /\ StorageFailure
    /\ op = "create"
    /\ cause.kind = "IntegrityError"
    /\ raised.kind = "DatabaseIntegrityError"

\* C5: a create whose obj_in does not validate raises InternalServerError
\* without calling rollback, add or commit; the session is as it was before
\* the call and the response is 500 with type "UnknownErr".
C5_ValidationNoRollback ==
    (op = "create" /\ cause.kind = "ValidationError"
        /\ pc \in {"raised", "responded"}) =>
        /\ raised.kind = "InternalServerError"
        /\ \A c \in {"rollback", "add", "commit"} : Count(calls, c) = 0
        /\ session = session0
        /\ pc = "responded" =>
              /\ response[1].status_code = 500
              /\ response[1].content.error[1].type = "UnknownErr"

C5_Witness ==
    /\ op = "create"
    /\ cause.kind = "ValidationError"
    /\ pc = "responded"
    /\ session0.in_transaction
    /\ response[1].status_code = 500

\* the two shapes of an envelope
SuccessShape(c) == c.success /\ c.error = <<>>

ErrorShape(c) ==
    /\ ~c.success
    /\ c.data = <<>>
    /\ Len(c.error) = 1
    /\ c.error[1].message # ""
    /\ c.error[1].type # ""

CommitBeforeReturn ==
    \E i \in Positions(calls, "commit"), j \in Positions(calls, "return") :
        i < j

\* C7 as claimed: every one of the five operations that returns normally has
\* committed before returning.
C7_Original == pc = "returned" => CommitBeforeReturn

\* C7 as amended: create, update and delete commit before they return
\* normally; get and get_multi return without a commit.
C7_WritesCommitBeforeReturn ==
    pc = "returned" =>
        IF op \in {"create", "update", "delete"}
        THEN CommitBeforeReturn
        ELSE Count(calls, "commit") = 0

C7_Witness ==
    /\ pc = "returned"
    /\ op = "delete"
    /\ calls = <<"delete", "commit", "return">>

\* C8 as claimed: when the domain exception of a storage failure is
\* translated, error.message is the prefix followed by ":" and str(cause)
\* when str(cause) is non-empty, and the prefix alone when the cause has no
\* arguments.
C8_Original ==
    (StorageFailure /\ HandledResponse) =>
        LET message == response[1].content.error[1].message
            prefix == KindPrefix[raised.kind]
        IN message = IF ExcStr(cause) = "" THEN prefix
                     ELSE prefix \o ":" \o ExcStr(cause)

\* the row order of the error-kind table
TableOrder ==
    <<"BadValueError", "NotFoundError", "DuplicatedError",
      "InternalServerError", "DatabaseIntegrityError", "DatabaseError">>

RegisteredOrder ==
    [i \in 1..Len(exception_to_handler_list) |->
        exception_to_handler_list[i][1]]

\* C9 as claimed: the entries of exception_to_handler_list are in the row
\* order of the error-kind table: the entry that handles a raised exception
\* stands at the position of the row of its kind.
C9_Original ==
    HandledResponse =>
        \A i \in HandlerEntries(raised) : TableOrder[i] = raised.kind

\* the order of the entries in the code
CodeOrder ==
    <<"BadValueError", "NotFoundError", "DuplicatedError",
      "InternalServerError", "DatabaseError", "DatabaseIntegrityError">>

\* C9 as amended: the entries are in the order BadValue, NotFound,
\* Duplicated, InternalServerError, DatabaseError, DatabaseIntegrityError:
\* the last two rows of the table are exchanged.
C9_RegistrationOrder ==
    /\ RegisteredOrder = CodeOrder
    /\ HandledResponse =>
          \A i \in HandlerEntries(raised) : CodeOrder[i] = raised.kind

C9_Witness ==
    /\ HandledResponse
    /\ raised.kind = "DatabaseError"
    /\ HandlerEntries(raised) = {5}

\* C10: within one call every storage action is attempted at most once, a
\* storage failure ends the call with a classified error without a further
\* storage action, rollback is called at most once and never on a call that
\* returns normally.
C10_NoRetry ==
    op \in Ops =>
        /\ \A c \in StorageActions \cup {"rollback"} : Count(calls, c) <= 1
        /\ pc = "returned" => Count(calls, "rollback") = 0
        /\ cause.kind \in StorageErrors =>
              \A i \in DOMAIN calls :
                  calls[i] \in {"rollback", "raise"} =>
                      \A j \in DOMAIN calls :
                          j > i => calls[j] \notin StorageActions
        /\ StorageFailure =>
              /\ raised.kind \in {"DatabaseIntegrityError", "DatabaseError"}
              /\ calls[Len(calls)] = "raise"

C10_Witness ==
    /\ StorageFailure
    /\ op = "update"
    /\ calls = <<"add", "commit", "rollback", "raise">>

\* the commit of the running call has completed: a statement after it was
\* reached
CommitCompleted ==
    \E i \in Positions(calls, "commit") :
        i < Len(calls) /\ calls[i + 1] # "rollback"

\* the session call whose failure ended the call: the one logged before the
\* rollback and the raise
FailedCall == calls[Len(calls) - 2]

\* C11 as claimed: when create or update raises DatabaseIntegrityError or
\* DatabaseError, the commit of the call has not completed and the database
\* is as it was before the call.
C11_Original ==
    (StorageFailure /\ op \in {"create", "update"}) =>
        /\ ~CommitCompleted
        /\ db = db0

\* C11 as amended: when create or update raises a classified storage error
\* because add or commit failed, the write has not been committed; when
\* the failing call is the refresh that follows the commit, the commit has
\* completed and the written row is in the database.
C11_CommittedOnlyWhenRefreshFails ==
    (StorageFailure /\ op \in {"create", "update"}) =>
        IF FailedCall = "refresh"
        THEN CommitCompleted /\ db_obj \in db
        ELSE ~CommitCompleted /\ db = db0

C11_Witness ==
    /\ StorageFailure
    /\ op = "create"
    /\ calls = <<"add", "commit", "refresh", "rollback", "raise">>
    /\ db # db0
    /\ db_obj \in db

====
